---- MODULE Spec2Model ----
(***************************************************************************)
(* A model of book2audio.py: main, process_book, convert_audio,            *)
(* get_epub_metadata and the string operations they apply.                 *)
(*                                                                         *)
(* A Python str is modelled as a sequence of one-character strings, so     *)
(* that str.replace, str.strip, re.sub and the % operator are computed     *)
(* character by character, as Python computes them.                        *)
(***************************************************************************)
EXTENDS Integers, Sequences, FiniteSets

(***************************************************************************)
(* Python string primitives                                                *)
(***************************************************************************)

\* s[i:i+len(p)] == p
IsPrefixAt(s, i, p) ==
    /\ i + Len(p) - 1 <= Len(s)
    /\ \A k \in 1..Len(p) : s[i + k - 1] = p[k]

\* sub in s
Contains(s, sub) == \E i \in 1..(Len(s) + 1) : IsPrefixAt(s, i, sub)

\* s.startswith(p)
StartsWith(s, p) == IsPrefixAt(s, 1, p)

\* s.find(sub, i): the first index >= i where sub occurs (0 if none)
Find(s, sub, i) ==
    IF \A j \in i..(Len(s) + 1) : ~IsPrefixAt(s, j, sub) THEN 0
    ELSE CHOOSE j \in i..(Len(s) + 1) :
             IsPrefixAt(s, j, sub) /\ \A k \in i..(j - 1) : ~IsPrefixAt(s, k, sub)

RECURSIVE ReplaceFrom(_, _, _, _)
RECURSIVE ReplaceAt(_, _, _, _, _)

\* s[i..] with the occurrences of old replaced by new
ReplaceFrom(s, i, old, new) == ReplaceAt(s, i, old, new, Find(s, old, i))

\* j is the next occurrence of old in s[i..] (0: none)
ReplaceAt(s, i, old, new, j) ==
    IF j = 0 THEN SubSeq(s, i, Len(s))
    ELSE SubSeq(s, i, j - 1) \o new \o ReplaceFrom(s, j + Len(old), old, new)

\* s.replace(old, new): leftmost, non-overlapping occurrences; an empty old
\* occurs before every character and at the end
Replace(s, old, new) ==
    IF old = <<>>
    THEN [k \in 1..(Len(s) * (Len(new) + 1) + Len(new)) |->
            IF (k - 1) % (Len(new) + 1) = Len(new)
            THEN s[((k - 1) \div (Len(new) + 1)) + 1]
            ELSE new[((k - 1) % (Len(new) + 1)) + 1]]
    ELSE ReplaceFrom(s, 1, old, new)

\* the first index >= i of s whose character is not in set (Len(s)+1 if none)
SkipSet(s, i, set) ==
    IF \A j \in i..Len(s) : s[j] \in set THEN Len(s) + 1
    ELSE CHOOSE j \in i..Len(s) : s[j] \notin set /\ \A k \in i..(j - 1) : s[k] \in set

\* the last index of s whose character is not in set (0 if none)
LastNotIn(s, set) ==
    IF \A j \in 1..Len(s) : s[j] \in set THEN 0
    ELSE CHOOSE j \in 1..Len(s) :
             s[j] \notin set /\ \A k \in (j + 1)..Len(s) : s[k] \in set

\* s.lstrip(chars)
LStrip(s, chars) == SubSeq(s, SkipSet(s, 1, chars), Len(s))

\* s.rstrip(chars)
RStrip(s, chars) == SubSeq(s, 1, LastNotIn(s, chars))

\* s.strip(chars)
Strip(s, chars) == RStrip(LStrip(s, chars), chars)

\* c * k
Repeat(c, k) == [i \in 1..k |-> c]

DigitChars == <<"0", "1", "2", "3", "4", "5", "6", "7", "8", "9",
                "a", "b", "c", "d", "e", "f">>

DecimalSet == {DigitChars[k] : k \in 1..10}

DigitVal(c) == (CHOOSE k \in 1..10 : DigitChars[k] = c) - 1

RECURSIVE NumVal(_, _, _)
\* the number written by the decimal digits s[i..j-1]
NumVal(s, i, j) ==
    IF j <= i THEN 0 ELSE NumVal(s, i, j - 1) * 10 + DigitVal(s[j - 1])

RECURSIVE NumDigits(_, _)
\* how many digits n >= 0 has in base b
NumDigits(n, b) == IF n < b THEN 1 ELSE 1 + NumDigits(n \div b, b)

\* the digits of n >= 0 in base b <= 16, lower case
ToBase(n, b) ==
    [i \in 1..NumDigits(n, b) |->
        DigitChars[((n \div b^(NumDigits(n, b) - i)) % b) + 1]]

LowerLetters ==
    <<"a", "b", "c", "d", "e", "f", "g", "h", "i", "j", "k", "l", "m",
      "n", "o", "p", "q", "r", "s", "t", "u", "v", "w", "x", "y", "z">>

UpperLetters ==
    <<"A", "B", "C", "D", "E", "F", "G", "H", "I", "J", "K", "L", "M",
      "N", "O", "P", "Q", "R", "S", "T", "U", "V", "W", "X", "Y", "Z">>

\* c.upper() for one ASCII character
UpperOf(c) ==
    IF \E k \in 1..26 : LowerLetters[k] = c
    THEN UpperLetters[CHOOSE k \in 1..26 : LowerLetters[k] = c]
    ELSE c

Upper(s) == [k \in 1..Len(s) |-> UpperOf(s[k])]

(***************************************************************************)
(* The % operator of Python applied to a str and one int:  fmt % n         *)
(* (CPython's unicode_format with a single non-tuple argument).            *)
(* The result is [err |-> "none", out |-> <the string>] or                 *)
(* [err |-> "TypeError" | "ValueError", out |-> <<>>].                     *)
(***************************************************************************)

FlagChars == {"-", "+", " ", "#", "0"}
LengthModifiers == {"h", "l", "L"}
IntConversions == {"d", "i", "u", "x", "X", "o"}
FloatConversions == {"e", "E", "f", "F", "g", "G"}
StrConversions == {"s", "r", "a"}

\* chr(n), 1 <= n <= 127; a control character is written the way repr
\* writes it, and so is the grave accent (\x60)
Chr(n) ==
    <<"\\x01", "\\x02", "\\x03", "\\x04", "\\x05", "\\x06", "\\x07", "\\x08",
      "\\t", "\\n", "\\x0b", "\\x0c", "\\r", "\\x0e", "\\x0f", "\\x10",
      "\\x11", "\\x12", "\\x13", "\\x14", "\\x15", "\\x16", "\\x17", "\\x18",
      "\\x19", "\\x1a", "\\x1b", "\\x1c", "\\x1d", "\\x1e", "\\x1f", " ",
      "!", "\"", "#", "$", "%", "&", "'", "(",
      ")", "*", "+", ",", "-", ".", "/", "0",
      "1", "2", "3", "4", "5", "6", "7", "8",
      "9", ":", ";", "<", "=", ">", "?", "@",
      "A", "B", "C", "D", "E", "F", "G", "H",
      "I", "J", "K", "L", "M", "N", "O", "P",
      "Q", "R", "S", "T", "U", "V", "W", "X",
      "Y", "Z", "[", "\\", "]", "^", "_", "\\x60",
      "a", "b", "c", "d", "e", "f", "g", "h",
      "i", "j", "k", "l", "m", "n", "o", "p",
      "q", "r", "s", "t", "u", "v", "w", "x",
      "y", "z", "{", "|", "}", "~", "\\x7f">>[n]

Pow10(k) == 10^k

\* n rounded to sig significant digits, half to even, as [md, exp]:
\* md is the sequence of the sig digits and n ~ 0.md * 10^(exp + 1)
RoundSig(n, sig) ==
    LET k == NumDigits(n, 10)
    IN  IF k <= sig
        THEN [md |-> ToBase(n, 10) \o Repeat("0", sig - k), exp |-> k - 1]
        ELSE LET D == Pow10(k - sig)
                 q == n \div D
                 r == n % D
                 up == 2 * r > D \/ (2 * r = D /\ q % 2 = 1)
                 m == IF up THEN q + 1 ELSE q
             IN  IF m = Pow10(sig) THEN [md |-> ToBase(Pow10(sig - 1), 10), exp |-> k]
                 ELSE [md |-> ToBase(m, 10), exp |-> k - 1]

StripZeros(s) == RStrip(s, {"0"})

\* "d.ddde+XX": mantissa digits md (first digit before the point), exponent
ExpForm(md, exp, alt, strip) ==
    LET frac0 == Tail(md)
        frac == IF strip THEN StripZeros(frac0) ELSE frac0
        point == IF frac # <<>> \/ alt THEN <<".">> ELSE <<>>
        e2 == IF exp < 10 THEN <<"0">> \o ToBase(exp, 10) ELSE ToBase(exp, 10)
    IN  <<Head(md)>> \o point \o frac \o <<"e", "+">> \o e2

\* the unsigned text of a float conversion of the int n >= 0
FloatBody(conv, n, prec, alt) ==
    LET low == IF conv \in {"E", "F", "G"}
               THEN (CASE conv = "E" -> "e" [] conv = "F" -> "f" [] OTHER -> "g")
               ELSE conv
        p == IF prec < 0 THEN 6 ELSE prec
        body ==
          CASE low = "f" ->
                 ToBase(n, 10) \o (IF p > 0 \/ alt THEN <<".">> ELSE <<>>)
                               \o Repeat("0", p)
            [] low = "e" ->
                 LET r == RoundSig(n, p + 1)
                 IN  ExpForm(r.md, r.exp, alt, FALSE)
            [] OTHER ->
                 LET P == IF p = 0 THEN 1 ELSE p
                     r == RoundSig(n, P)
                 IN  IF r.exp < P
                     THEN IF alt
                          THEN ToBase(n, 10) \o <<".">> \o Repeat("0", P - 1 - r.exp)
                          ELSE ToBase(n, 10)
                     ELSE ExpForm(r.md, r.exp, alt, ~alt)
    IN  IF conv \in {"E", "F", "G"} THEN Upper(body) ELSE body

\* the unsigned digits of an integer conversion of n >= 0, zero-padded to prec
IntBody(conv, n, prec) ==
    LET raw == CASE conv \in {"x", "X"} -> ToBase(n, 16)
                 [] conv = "o" -> ToBase(n, 8)
                 [] OTHER -> ToBase(n, 10)
        cased == IF conv = "X" THEN Upper(raw) ELSE raw
    IN  Repeat("0", prec - Len(cased)) \o cased

\* "0x", "0X", "0o" under the # flag
IntPrefix(conv, alt) ==
    IF ~alt THEN <<>>
    ELSE CASE conv = "x" -> <<"0", "x">>
           [] conv = "X" -> <<"0", "X">>
           [] conv = "o" -> <<"0", "o">>
           [] OTHER -> <<>>

\* sign, prefix, fill and justification (unicode_format_arg_output)
Padded(sign, prefix, body, width, flags, numeric) ==
    LET core == sign \o prefix \o body
        gap == width - Len(core)
    IN  IF gap <= 0 THEN core
        ELSE IF "-" \in flags THEN core \o Repeat(" ", gap)
        ELSE IF numeric /\ "0" \in flags
             THEN sign \o prefix \o Repeat("0", gap) \o body
        ELSE Repeat(" ", gap) \o core

\* the sign a numeric conversion of n >= 0 writes
SignOf(conv, flags) ==
    IF conv \notin IntConversions \cup FloatConversions THEN <<>>
    ELSE IF "+" \in flags THEN <<"+">>
    ELSE IF " " \in flags THEN <<" ">> ELSE <<>>

\* str(n)[:prec]
StrBody(n, prec) ==
    IF prec >= 0 /\ prec < NumDigits(n, 10) THEN SubSeq(ToBase(n, 10), 1, prec)
    ELSE ToBase(n, 10)

\* the text of n under the conversion, without sign, prefix and padding
Body(conv, n, flags, prec) ==
    CASE conv \in IntConversions -> IntBody(conv, n, prec)
      [] conv \in FloatConversions -> FloatBody(conv, n, prec, "#" \in flags)
      [] conv \in StrConversions -> StrBody(n, prec)
      [] OTHER -> <<Chr(n)>>

\* one conversion of the int n >= 0 (unicode_format_arg_format + _output)
Convert(conv, n, flags, width, prec) ==
    Padded(SignOf(conv, flags), IntPrefix(conv, "#" \in flags),
           Body(conv, n, flags, prec), width, flags,
           conv \in IntConversions \cup FloatConversions)

FmtError(kind) == [err |-> kind, out |-> <<>>, next |-> 0, used |-> 0]

\* The conversion character at r, all of flags, width and precision parsed
\* (unicode_format_arg_format): the argument is taken, then converted.
AtConversion(fmt, r, n, used, flags, width, prec) ==
    IF r > Len(fmt) THEN FmtError("ValueError")
    ELSE IF used >= 1 THEN FmtError("TypeError")
    ELSE IF fmt[r] \notin IntConversions \cup FloatConversions
                          \cup StrConversions \cup {"c"}
         THEN FmtError("ValueError")
    ELSE [err |-> "none", out |-> Convert(fmt[r], n, flags, width, prec),
          next |-> r + 1, used |-> used + 1]

\* 'Ignore "h", "l" and "L" format prefix'
AtLength(fmt, q, n, used, flags, width, prec) ==
    AtConversion(fmt, IF q <= Len(fmt) /\ fmt[q] \in LengthModifiers THEN q + 1 ELSE q,
                 n, used, flags, width, prec)

\* A width or a precision at i: "*" (star: it takes the argument n),
\* digits, or nothing (val = none); next is the index after it.
NumberAt(fmt, i, n, none) ==
    IF i <= Len(fmt) /\ fmt[i] = "*"
    THEN [star |-> TRUE, next |-> i + 1, val |-> n]
    ELSE IF i <= Len(fmt) /\ fmt[i] \in DecimalSet
    THEN [star |-> FALSE, next |-> SkipSet(fmt, i, DecimalSet),
          val |-> NumVal(fmt, i, SkipSet(fmt, i, DecimalSet))]
    ELSE [star |-> FALSE, next |-> i, val |-> none]

\* the precision pr is parsed
WithPrecision(fmt, n, used, flags, width, pr) ==
    IF pr.star /\ used >= 1 THEN FmtError("TypeError")
    ELSE AtLength(fmt, pr.next, n, IF pr.star THEN used + 1 ELSE used,
                  flags, width, pr.val)

\* "Parse precision": ".", then "*" or digits (none: 0); no ".": -1
AtPrecision(fmt, w, n, used, flags, width) ==
    WithPrecision(fmt, n, used, flags, width,
                  IF w <= Len(fmt) /\ fmt[w] = "."
                  THEN NumberAt(fmt, w + 1, n, 0)
                  ELSE [star |-> FALSE, next |-> w, val |-> -1])

\* the width wd is parsed
WithWidth(fmt, n, used, flags, wd) ==
    IF wd.star /\ used >= 1 THEN FmtError("TypeError")
    ELSE AtPrecision(fmt, wd.next, n, IF wd.star THEN used + 1 ELSE used,
                     flags, wd.val)

\* "Parse width": "*" or digits (none: -1)
AtWidth(fmt, f, n, used, flags) ==
    WithWidth(fmt, n, used, flags, NumberAt(fmt, f, n, -1))

\* "Parse flags": the characters from p up to f
AtFlags(fmt, p, f, n, used) ==
    AtWidth(fmt, f, n, used, {fmt[k] : k \in p..(f - 1)})

\* One directive of fmt, p being the index after its "%", used the number of
\* arguments taken so far (unicode_format_arg, unicode_format_arg_parse).
Directive(fmt, p, n, used) ==
    IF p > Len(fmt) THEN FmtError("ValueError")
    ELSE IF fmt[p] = "%"
    THEN [err |-> "none", out |-> <<"%">>, next |-> p + 1, used |-> used]
    ELSE IF fmt[p] = "(" THEN FmtError("TypeError")
    ELSE AtFlags(fmt, p, SkipSet(fmt, p, FlagChars), n, used)

\* head, then the rest of the result
Prepend(head, rest) ==
    IF rest.err # "none" THEN rest ELSE [rest EXCEPT !.out = head \o @]

\* the index of the first "%" of fmt at or after i (Len(fmt)+1 if none)
NextPercent(fmt, i) ==
    IF \A j \in i..Len(fmt) : fmt[j] # "%" THEN Len(fmt) + 1
    ELSE CHOOSE j \in i..Len(fmt) : fmt[j] = "%" /\ \A k \in i..(j - 1) : fmt[k] # "%"

RECURSIVE FormatFrom(_, _, _, _)
RECURSIVE AfterDirective(_, _, _)

\* fmt[i..] with used arguments taken: the literal characters up to the
\* next directive, the directive, and the rest; at the end,
\* "not all arguments converted" unless the argument was taken
FormatFrom(fmt, i, n, used) ==
    IF i > Len(fmt)
    THEN IF used = 0 THEN FmtError("TypeError")
         ELSE [err |-> "none", out |-> <<>>, next |-> i, used |-> used]
    ELSE IF fmt[i] # "%"
    THEN Prepend(SubSeq(fmt, i, NextPercent(fmt, i) - 1),
                 FormatFrom(fmt, NextPercent(fmt, i), n, used))
    ELSE AfterDirective(fmt, n, Directive(fmt, i + 1, n, used))

\* the directive gave d: its error, or its text and the rest
AfterDirective(fmt, n, d) ==
    IF d.err # "none" THEN d
    ELSE Prepend(d.out, FormatFrom(fmt, d.next, n, d.used))

\* [err, out] of a result
ErrOut(r) == [err |-> r.err, out |-> r.out]

\* fmt % n
PyFormat(fmt, n) == ErrOut(FormatFrom(fmt, 1, n, 0))

(***************************************************************************)
(* Values                                                                  *)
(***************************************************************************)

\* An optional Python value: <<>> is None, <<v>> is the value v.
None == <<>>
Some(v) == <<v>>
\* Python truthiness of an optional str: None and "" are falsy
Truthy(opt) == opt # None /\ opt[1] # <<>>

TokAuthor == <<"$", "{", "A", "u", "t", "h", "o", "r", "}">>
TokTitle == <<"$", "{", "T", "i", "t", "l", "e", "}">>
TokExt == <<"$", "{", "e", "x", "t", "}">>

UnknownAuthor == <<"U", "n", "k", "n", "o", "w", "n", " ", "A", "u", "t", "h", "o", "r">>
UnknownTitle == <<"U", "n", "k", "n", "o", "w", "n", " ", "T", "i", "t", "l", "e">>

\* --filename-format default
DefaultTemplate ==
    TokAuthor \o <<"-">> \o TokTitle
      \o <<" ", "-", " ", "C", "h", "a", "p", "t", "e", "r", " ", "%", "0", "2", "d", ".">>
      \o TokExt

\* --format choices
FormatChoices ==
    { <<".", "m", "4", "a">>, <<".", "m", "p", "3">>, <<".", "w", "a", "v">>,
      <<".", "a", "i", "f", "f">>,
      <<"m", "4", "a">>, <<"m", "p", "3">>, <<"w", "a", "v">>, <<"a", "i", "f", "f">> }

ExtAiff == <<".", "a", "i", "f", "f">>

\* item.get_type() of a document/markup item
ITEM_DOCUMENT == 9
\* the shortest text that makes a chapter
MinTextLen == 100

\* the characters re.sub(r'[\\/*?:"<>|]', "", ...) removes
UnsafeChars == {"\\", "/", "*", "?", ":", "\"", "<", ">", "|"}

IsSafeChar(c) == c \notin UnsafeChars

\* re.sub(r'[\\/*?:"<>|]', "", s)
Sanitize(s) == SelectSeq(s, IsSafeChar)

(***************************************************************************)
(* Text extracted from an item.  What BeautifulSoup.get_text returns is    *)
(* kept run-length encoded: lead whitespace characters, then core          *)
(* characters that start and end with a non-blank one, then trail          *)
(* whitespace characters.  An item's content has, besides, script          *)
(* characters inside its script and style elements.                        *)
(***************************************************************************)

\* clean_html(content): script and style elements are taken out of the
\* soup (content.script counts their characters), the rest is the text
clean_html(content) ==
    [lead |-> content.lead, core |-> content.core, trail |-> content.trail]

\* text.strip()
TextStrip(t) == [lead |-> 0, core |-> t.core, trail |-> 0]

\* len(text)
TextLen(t) == t.lead + t.core + t.trail

(***************************************************************************)
(* get_epub_metadata and the identity of a book                            *)
(***************************************************************************)

\* book.get_metadata("DC", field) is a list of values; the first one, or ""
FirstOrEmpty(values) == IF values # <<>> THEN values[1] ELSE <<>>

get_epub_metadata(book) ==
    [author |-> FirstOrEmpty(book.creators), title |-> FirstOrEmpty(book.titles)]

\* Variant of Resolve: the metadata value is preferred to the override
ResolveMetadataFirst(override, meta, fallback) ==
    IF meta # <<>> THEN meta
    ELSE IF Truthy(override) THEN override[1] ELSE fallback

\* args.x if args.x else (meta_x if meta_x else fallback)
Resolve(override, meta, fallback) ==
    IF Truthy(override) THEN override[1]
    ELSE IF meta # <<>> THEN meta ELSE fallback

(***************************************************************************)
(* Filename rendering (process_book, "Format filename")                    *)
(***************************************************************************)

\* ext = args.format if args.format.startswith(".") else f".{args.format}"
ExtOf(format) == IF StartsWith(format, <<".">>) THEN format ELSE <<".">> \o format

\* args.filename_format.replace("${Author}", a).replace("${Title}", t)
FilenameTemplate(filename_format, safe_author, safe_title) ==
    Replace(Replace(filename_format, TokAuthor, safe_author), TokTitle, safe_title)

\* Variant of WithExtension: the extension is appended whatever the name holds
WithExtensionAppended(name, ext) == name \o ext

\* "${ext}" in name: replace it by ext.strip("."), else append ext
WithExtension(name, ext) ==
    IF Contains(name, TokExt)
    THEN Replace(name, TokExt, Strip(ext, {"."}))
    ELSE name \o ext

\* r is what the % operator gave: its exception, or its string with the
\* extension
Extended(r, ext) ==
    IF r.err # "none" THEN r
    ELSE [err |-> "none", out |-> WithExtension(r.out, ext)]

\* [err, out]: the final filename, or the exception of the % operator
FinalFilename(filename_format, format, safe_author, safe_title, n) ==
    Extended(PyFormat(FilenameTemplate(filename_format, safe_author, safe_title), n),
             ExtOf(format))

(***************************************************************************)
(* Bounds and input sets                                                   *)
(***************************************************************************)

\* the numbers of input paths on the command lines explored
FileCounts == {1, 2}
\* items of one book
MaxItems == 3
\* failures of the external commands (say, ffmpeg) in one run
MaxFaults == 1

Bob == <<"B", "o", "b">>
MyBook == <<"M", "y", ":", " ", "B", "k">>
Dune == <<"D", "u", "n", "e">>
FiftyPercent == <<"5", "0", "%">>

TemplateCh == <<"C", "h", "%", "d">>
TemplateNoDirective == <<"C", "h">>

\* the parsed command lines of the runs explored (argparse, main)
ArgsSet ==
    { [author |-> None, title |-> None,
       format |-> <<".", "m", "4", "a">>, filename_format |-> DefaultTemplate],
      [author |-> Some(Bob), title |-> None,
       format |-> <<"w", "a", "v">>, filename_format |-> TemplateCh],
      [author |-> Some(<<>>), title |-> Some(MyBook),
       format |-> <<".", "a", "i", "f", "f">>, filename_format |-> DefaultTemplate],
      [author |-> None, title |-> Some(<<>>),
       format |-> <<"m", "p", "3">>, filename_format |-> TemplateNoDirective],
      [author |-> Some(Bob), title |-> Some(Dune),
       format |-> <<".", "m", "p", "3">>, filename_format |-> DefaultTemplate] }

\* the metadata of the books on disk
MetaSet ==
    { [creators |-> <<>>, titles |-> <<>>],
      [creators |-> << <<"A", "/", "B">>, <<"C">> >>, titles |-> << Dune >>],
      [creators |-> << <<>>, Bob >>, titles |-> << FiftyPercent, Dune >>] }

\* the items of the books on disk
ItemSet ==
    { [type |-> 1,   \* another item type (an image)
       content |-> [lead |-> 0, core |-> 150, script |-> 0, trail |-> 0]],
      [type |-> ITEM_DOCUMENT,
       content |-> [lead |-> 3, core |-> 99, script |-> 0, trail |-> 2]],
      [type |-> ITEM_DOCUMENT,
       content |-> [lead |-> 0, core |-> 60, script |-> 50, trail |-> 0]],
      [type |-> ITEM_DOCUMENT,
       content |-> [lead |-> 1, core |-> 100, script |-> 0, trail |-> 0]] }

NoItem == [type |-> 0, content |-> [lead |-> 0, core |-> 0, script |-> 0, trail |-> 0]]
NoText == [lead |-> 0, core |-> 0, trail |-> 0]
NoBook == [creators |-> <<>>, titles |-> <<>>]

(***************************************************************************)
(* State                                                                   *)
(***************************************************************************)

VARIABLES
    args,            \* main: the parsed command line
    nfiles,          \* main: len(args.files)
    fileIdx,         \* main: the position of epub_file in args.files (0: none yet)
    pc,              \* the statement the run is at
    book,            \* process_book: the metadata of the open book
    author, title,   \* process_book: the resolved identity
    safe_author, safe_title,
    chapter_num,     \* process_book: chapter_num
    itemIdx,         \* process_book: the position of item in book.get_items()
    item,            \* process_book: item
    text,            \* process_book: text
    ext,             \* process_book: ext
    final_filename,  \* process_book: final_filename
    temp_aiff,       \* process_book: temp_aiff (a temp file number, 0: none)
    outfiles,        \* the files of the working directory: name -> content
    tmpfiles,        \* the files of the temp directory: number -> content
    log,             \* the [ERROR] lines printed
    calls,           \* the effects outside: mkstemp, say, ffmpeg, shutil.move
    accepted,        \* the chapter numbers given in the open book, in order
    outcome,         \* per input path: what process_book found it to be
    faults           \* failures of external commands so far

vars == <<args, nfiles, fileIdx, pc, book, author, title, safe_author, safe_title,
          chapter_num, itemIdx, item, text, ext, final_filename, temp_aiff,
          outfiles, tmpfiles, log, calls, accepted, outcome, faults>>

bookVars == <<book, author, title, safe_author, safe_title>>
chapterVars == <<text, ext, final_filename, temp_aiff>>
diskVars == <<outfiles, tmpfiles>>

\* f with name bound to content
Put(f, name, content) ==
    [n \in DOMAIN f \cup {name} |-> IF n = name THEN content ELSE f[n]]

\* f without name
Drop(f, name) == [n \in DOMAIN f \ {name} |-> f[n]]

EmptyDir == [n \in {} |-> 0]

\* one [ERROR] line; chapter is the chapter number it prints (0: it prints none)
LogLine(msg, file, chapter) == [msg |-> msg, file |-> file, chapter |-> chapter]

\* what a file holds: the chapter it was made from (src: input path and
\* chapter number), how far it was written, and its audio format
Content(src, written, codec) == [src |-> src, written |-> written, codec |-> codec]

\* one external effect: the tool, the chapter it ran for, its destination
\* file and how it ended ("ok", "error": non-zero exit, "notfound")
Call(tool, dest, result) ==
    [tool |-> tool, file |-> fileIdx, chapter |-> chapter_num, dest |-> dest,
     result |-> result]

\* no call of process_book is active
NoLocals ==
    /\ book = NoBook
    /\ author = <<>> /\ title = <<>>
    /\ safe_author = <<>> /\ safe_title = <<>>
    /\ chapter_num = 0
    /\ itemIdx = 0
    /\ item = NoItem
    /\ text = NoText
    /\ ext = <<>>
    /\ final_filename = <<>>
    /\ temp_aiff = 0
    /\ accepted = <<>>

\* process_book returns
ClearLocals ==
    /\ book' = NoBook
    /\ author' = <<>> /\ title' = <<>>
    /\ safe_author' = <<>> /\ safe_title' = <<>>
    /\ chapter_num' = 0
    /\ itemIdx' = 0
    /\ item' = NoItem
    /\ text' = NoText
    /\ ext' = <<>>
    /\ final_filename' = <<>>
    /\ temp_aiff' = 0
    /\ accepted' = <<>>

Init ==
    /\ args \in ArgsSet
    /\ nfiles \in FileCounts
    /\ fileIdx = 0
    /\ pc = "start"
    /\ NoLocals
    /\ outfiles = EmptyDir
    /\ tmpfiles = EmptyDir
    /\ log = <<>>
    /\ calls = <<>>
    /\ outcome = [f \in 1..nfiles |-> "pending"]
    /\ faults = 0

(***************************************************************************)
(* main                                                                    *)
(***************************************************************************)

\* main, "Ensure format starts with dot"
Start ==
    /\ pc = "start"
    /\ args' = [args EXCEPT !.format = ExtOf(@)]
    /\ pc' = "main"
    /\ UNCHANGED <<nfiles, fileIdx, bookVars, chapter_num, itemIdx, item,
                   chapterVars, diskVars, log, calls, accepted, outcome, faults>>

\* main: the loop over args.files is exhausted
MainReturns ==
    /\ pc = "main"
    /\ fileIdx = nfiles
    /\ pc' = "done"
    /\ UNCHANGED <<args, nfiles, fileIdx, bookVars, chapter_num, itemIdx, item,
                   chapterVars, diskVars, log, calls, accepted, outcome, faults>>

(***************************************************************************)
(* process_book: opening the book                                          *)
(***************************************************************************)

\* not os.path.exists(filepath): report and return
FileNotFound ==
    /\ pc = "main"
    /\ fileIdx < nfiles
    /\ fileIdx' = fileIdx + 1
    /\ log' = Append(log, LogLine("File not found", fileIdx + 1, 0))
    /\ outcome' = [outcome EXCEPT ![fileIdx + 1] = "missing"]
    /\ UNCHANGED <<args, nfiles, pc, bookVars, chapter_num, itemIdx, item,
                   chapterVars, diskVars, calls, accepted, faults>>

\* epub.read_epub raises: report and return
ReadError ==
    /\ pc = "main"
    /\ fileIdx < nfiles
    /\ fileIdx' = fileIdx + 1
    /\ log' = Append(log, LogLine("Could not read EPUB", fileIdx + 1, 0))
    /\ outcome' = [outcome EXCEPT ![fileIdx + 1] = "unreadable"]
    /\ UNCHANGED <<args, nfiles, pc, bookVars, chapter_num, itemIdx, item,
                   chapterVars, diskVars, calls, accepted, faults>>

\* the book is read: metadata identification, safe names, chapter_num = 1
OpenBook(b) ==
    /\ pc = "main"
    /\ fileIdx < nfiles
    /\ fileIdx' = fileIdx + 1
    /\ book' = b
    /\ LET meta == get_epub_metadata(b)
           a == Resolve(args.author, meta.author, UnknownAuthor)
           t == Resolve(args.title, meta.title, UnknownTitle)
       IN  /\ author' = a
           /\ title' = t
           /\ safe_author' = Sanitize(a)
           /\ safe_title' = Sanitize(t)
    /\ chapter_num' = 1
    /\ itemIdx' = 0
    /\ item' = NoItem
    /\ accepted' = <<>>
    /\ outcome' = [outcome EXCEPT ![fileIdx + 1] = "open"]
    /\ pc' = "items"
    /\ UNCHANGED <<args, nfiles, chapterVars, diskVars, log, calls, faults>>

(***************************************************************************)
(* process_book: the loop over book.get_items()                            *)
(***************************************************************************)

\* the text of an item: clean_html(content).strip()
ItemText(it) == TextStrip(clean_html(it.content))

\* Variant of IsChapter: the length is taken before the text is stripped
IsChapterUnstripped(it) ==
    it.type = ITEM_DOCUMENT /\ ~(TextLen(clean_html(it.content)) < MinTextLen)

\* the item is a document and its text is not shorter than 100
IsChapter(it) == it.type = ITEM_DOCUMENT /\ ~(TextLen(ItemText(it)) < MinTextLen)

\* an item of another type, or a document with a short text, in a book of at
\* most max items: continue
SkipItemWithin(it, max) ==
    /\ pc = "items"
    /\ itemIdx < max
    /\ ~IsChapter(it)
    /\ itemIdx' = itemIdx + 1
    /\ item' = it
    /\ text' = IF it.type = ITEM_DOCUMENT THEN ItemText(it) ELSE text
    /\ UNCHANGED <<args, nfiles, fileIdx, pc, bookVars, chapter_num, ext,
                   final_filename, temp_aiff, diskVars, log, calls, accepted,
                   outcome, faults>>

\* Variant of SkipItem: a skipped item takes a chapter number
SkipItemCounted(it) ==
    /\ pc = "items"
    /\ itemIdx < MaxItems
    /\ ~IsChapter(it)
    /\ itemIdx' = itemIdx + 1
    /\ item' = it
    /\ text' = IF it.type = ITEM_DOCUMENT THEN ItemText(it) ELSE text
    /\ chapter_num' = chapter_num + 1
    /\ UNCHANGED <<args, nfiles, fileIdx, pc, bookVars, ext,
                   final_filename, temp_aiff, diskVars, log, calls, accepted,
                   outcome, faults>>

\* an item of another type, or a document with a short text: continue
SkipItem(it) == SkipItemWithin(it, MaxItems)

\* a document with a long enough text, in a book of at most max items:
\* "Processing Chapter {chapter_num}..."
AcceptItemWithin(it, max) ==
    /\ pc = "items"
    /\ itemIdx < max
    /\ IsChapter(it)
    /\ itemIdx' = itemIdx + 1
    /\ item' = it
    /\ text' = ItemText(it)
    /\ accepted' = Append(accepted, chapter_num)
    /\ pc' = "format"
    /\ UNCHANGED <<args, nfiles, fileIdx, bookVars, chapter_num, ext,
                   final_filename, temp_aiff, diskVars, log, calls, outcome, faults>>

AcceptItem(it) == AcceptItemWithin(it, MaxItems)

\* book.get_items() is exhausted: process_book returns, its locals are gone
EndOfItems ==
    /\ pc = "items"
    /\ outcome' = [outcome EXCEPT ![fileIdx] = "done"]
    /\ pc' = "main"
    /\ ClearLocals
    /\ UNCHANGED <<args, nfiles, fileIdx, diskVars, log, calls, faults>>

(***************************************************************************)
(* process_book: one chapter                                               *)
(***************************************************************************)

\* the chapter at hand: its input path and chapter number
Src == <<fileIdx, chapter_num>>

IsMkTemp(c) == c.tool = "mkstemp"

\* r is what rendering gave: the name is kept, or the exception ends the run
Rendered(r) ==
    IF r.err = "none"
    THEN /\ final_filename' = r.out
         /\ pc' = "mktemp"
    ELSE /\ final_filename' = final_filename
         /\ pc' = "crashed"

\* "Format filename": ext, filename_template % chapter_num, the extension.
\* The % operator is outside the try block: its exception leaves
\* process_book and main.
FormatFilename ==
    /\ pc = "format"
    /\ ext' = ExtOf(args.format)
    /\ Rendered(FinalFilename(args.filename_format, args.format,
                              safe_author, safe_title, chapter_num))
    /\ UNCHANGED <<args, nfiles, fileIdx, bookVars, chapter_num, itemIdx, item,
                   text, temp_aiff, diskVars, log, calls, accepted, outcome, faults>>

\* tempfile.NamedTemporaryFile(suffix=".aiff", delete=False).name:
\* a new, empty file that stays on disk
MakeTemp ==
    /\ pc = "mktemp"
    /\ LET t == Len(SelectSeq(calls, IsMkTemp)) + 1
       IN  /\ temp_aiff' = t
           /\ tmpfiles' = Put(tmpfiles, t, Content(Src, "empty", ExtAiff))
    /\ calls' = Append(calls, Call("mkstemp", <<>>, "ok"))
    /\ pc' = "say"
    /\ UNCHANGED <<args, nfiles, fileIdx, bookVars, chapter_num, itemIdx, item,
                   text, ext, final_filename, outfiles, log, accepted, outcome,
                   faults>>

\* tempfile.NamedTemporaryFile raises (the temp directory is missing or
\* full): the statement is before the try block, so the exception leaves
\* process_book and main
MakeTempFails ==
    /\ pc = "mktemp"
    /\ faults < MaxFaults
    /\ faults' = faults + 1
    /\ calls' = Append(calls, Call("mkstemp", <<>>, "error"))
    /\ pc' = "crashed"
    /\ UNCHANGED <<args, nfiles, fileIdx, bookVars, chapter_num, itemIdx, item,
                   chapterVars, diskVars, log, accepted, outcome>>

\* subprocess.run(["say", "-o", temp_aiff, text], check=True) succeeds
SayOk ==
    /\ pc = "say"
    /\ calls' = Append(calls, Call("say", <<>>, "ok"))
    /\ tmpfiles' = Put(tmpfiles, temp_aiff, Content(Src, "complete", ExtAiff))
    /\ pc' = "convert"
    /\ UNCHANGED <<args, nfiles, fileIdx, bookVars, chapter_num, itemIdx, item,
                   chapterVars, outfiles, log, accepted, outcome, faults>>

\* what say leaves in the temp file when it fails: part of the audio, or
\* the empty file as created
AfterSayFails(partial) ==
    IF partial THEN Put(tmpfiles, temp_aiff, Content(Src, "partial", ExtAiff))
    ELSE tmpfiles

\* Variant of SayFails: chapter_num += 1 is not reached after the failure
SayFailsKeepsIndex(partial) ==
    /\ pc = "say"
    /\ faults < MaxFaults
    /\ faults' = faults + 1
    /\ calls' = Append(calls, Call("say", <<>>, "error"))
    /\ tmpfiles' = AfterSayFails(partial)
    /\ log' = Append(log, LogLine("TTS or Conversion failed", fileIdx, chapter_num))
    /\ pc' = "items"
    /\ UNCHANGED <<args, nfiles, fileIdx, bookVars, chapter_num, itemIdx, item,
                   chapterVars, outfiles, accepted, outcome>>

\* say exits with an error, having written part of the temp file or nothing
\* of it, or is not installed: the except clause prints the chapter's
\* error, then chapter_num += 1
SayFails(partial) ==
    /\ pc = "say"
    /\ faults < MaxFaults
    /\ faults' = faults + 1
    /\ calls' = Append(calls, Call("say", <<>>, "error"))
    /\ tmpfiles' = AfterSayFails(partial)
    /\ log' = Append(log, LogLine("TTS or Conversion failed", fileIdx, chapter_num))
    /\ chapter_num' = chapter_num + 1
    /\ pc' = "items"
    /\ UNCHANGED <<args, nfiles, fileIdx, bookVars, itemIdx, item, chapterVars,
                   outfiles, accepted, outcome>>

(***************************************************************************)
(* convert_audio(temp_aiff, final_filename, ext, verbose)                  *)
(***************************************************************************)

\* ext == ".aiff": shutil.move(input_file, output_file), return
MoveAiff ==
    /\ pc = "convert"
    /\ ext = ExtAiff
    /\ calls' = Append(calls, Call("move", final_filename, "ok"))
    /\ outfiles' = Put(outfiles, final_filename, tmpfiles[temp_aiff])
    /\ tmpfiles' = Drop(tmpfiles, temp_aiff)
    /\ pc' = "cleanup"
    /\ UNCHANGED <<args, nfiles, fileIdx, bookVars, chapter_num, itemIdx, item,
                   chapterVars, log, accepted, outcome, faults>>

\* shutil.move raises, with nothing of the file at the destination (the
\* destination directory is missing), part of it (another file system, which
\* fills up) or the whole of it (the copy is done and the temporary file
\* cannot be unlinked): the temporary file stays, the exception leaves
\* convert_audio, the except clause of process_book prints the chapter's
\* error, os.remove is not reached, chapter_num += 1
MoveFails(written) ==
    /\ pc = "convert"
    /\ ext = ExtAiff
    /\ faults < MaxFaults
    /\ faults' = faults + 1
    /\ calls' = Append(calls, Call("move", final_filename, "error"))
    /\ outfiles' = IF written = "none"
                   THEN outfiles
                   ELSE Put(outfiles, final_filename,
                            Content(tmpfiles[temp_aiff].src, written, ext))
    /\ log' = Append(log, LogLine("TTS or Conversion failed", fileIdx, chapter_num))
    /\ chapter_num' = chapter_num + 1
    /\ pc' = "items"
    /\ UNCHANGED <<args, nfiles, fileIdx, bookVars, itemIdx, item, chapterVars,
                   tmpfiles, accepted, outcome>>

\* ffmpeg -y -i input_file ... output_file exits with 0
FfmpegOk ==
    /\ pc = "convert"
    /\ ext # ExtAiff
    /\ calls' = Append(calls, Call("ffmpeg", final_filename, "ok"))
    /\ outfiles' = Put(outfiles, final_filename,
                       Content(tmpfiles[temp_aiff].src, "complete", ext))
    /\ pc' = "cleanup"
    /\ UNCHANGED <<args, nfiles, fileIdx, bookVars, chapter_num, itemIdx, item,
                   chapterVars, tmpfiles, log, accepted, outcome, faults>>

\* ffmpeg exits with an error (CalledProcessError), having written part of
\* output_file or nothing of it: convert_audio prints and returns
FfmpegFails(partial) ==
    /\ pc = "convert"
    /\ ext # ExtAiff
    /\ faults < MaxFaults
    /\ faults' = faults + 1
    /\ calls' = Append(calls, Call("ffmpeg", final_filename, "error"))
    /\ outfiles' = IF partial
                   THEN Put(outfiles, final_filename,
                            Content(tmpfiles[temp_aiff].src, "partial", ext))
                   ELSE outfiles
    /\ log' = Append(log, LogLine("Failed to convert", fileIdx, 0))
    /\ pc' = "cleanup"
    /\ UNCHANGED <<args, nfiles, fileIdx, bookVars, chapter_num, itemIdx, item,
                   chapterVars, tmpfiles, accepted, outcome>>

\* ffmpeg is not installed (FileNotFoundError): convert_audio prints and returns
FfmpegNotFound ==
    /\ pc = "convert"
    /\ ext # ExtAiff
    /\ faults < MaxFaults
    /\ faults' = faults + 1
    /\ calls' = Append(calls, Call("ffmpeg", final_filename, "notfound"))
    /\ log' = Append(log, LogLine("ffmpeg not found", fileIdx, 0))
    /\ pc' = "cleanup"
    /\ UNCHANGED <<args, nfiles, fileIdx, bookVars, chapter_num, itemIdx, item,
                   chapterVars, diskVars, accepted, outcome>>

\* subprocess.run raises an exception convert_audio has no clause for
\* (PermissionError: ffmpeg is not executable, ...): it leaves convert_audio,
\* the except clause of process_book prints the chapter's error, os.remove
\* is not reached, chapter_num += 1
FfmpegRaises ==
    /\ pc = "convert"
    /\ ext # ExtAiff
    /\ faults < MaxFaults
    /\ faults' = faults + 1
    /\ calls' = Append(calls, Call("ffmpeg", final_filename, "error"))
    /\ log' = Append(log, LogLine("TTS or Conversion failed", fileIdx, chapter_num))
    /\ chapter_num' = chapter_num + 1
    /\ pc' = "items"
    /\ UNCHANGED <<args, nfiles, fileIdx, bookVars, itemIdx, item, chapterVars,
                   diskVars, accepted, outcome>>

\* back in process_book: if os.path.exists(temp_aiff): os.remove(temp_aiff);
\* then chapter_num += 1
RemoveTemp ==
    /\ pc = "cleanup"
    /\ tmpfiles' = IF temp_aiff \in DOMAIN tmpfiles
                   THEN Drop(tmpfiles, temp_aiff) ELSE tmpfiles
    /\ chapter_num' = chapter_num + 1
    /\ pc' = "items"
    /\ UNCHANGED <<args, nfiles, fileIdx, bookVars, itemIdx, item, chapterVars,
                   outfiles, log, calls, accepted, outcome, faults>>

\* os.remove(temp_aiff) raises on the file that exists (no permission, ...):
\* the except clause prints the chapter's error, then chapter_num += 1
RemoveTempFails ==
    /\ pc = "cleanup"
    /\ temp_aiff \in DOMAIN tmpfiles
    /\ faults < MaxFaults
    /\ faults' = faults + 1
    /\ log' = Append(log, LogLine("TTS or Conversion failed", fileIdx, chapter_num))
    /\ chapter_num' = chapter_num + 1
    /\ pc' = "items"
    /\ UNCHANGED <<args, nfiles, fileIdx, bookVars, itemIdx, item, chapterVars,
                   diskVars, calls, accepted, outcome>>

Next ==
    \/ Start
    \/ MainReturns
    \/ FileNotFound
    \/ ReadError
    \/ \E b \in MetaSet : OpenBook(b)
    \/ \E it \in ItemSet : SkipItem(it)
    \/ \E it \in ItemSet : AcceptItem(it)
    \/ EndOfItems
    \/ FormatFilename
    \/ MakeTemp
    \/ MakeTempFails
    \/ SayOk
    \/ \E partial \in BOOLEAN : SayFails(partial)
    \/ MoveAiff
    \/ \E written \in {"none", "partial", "complete"} : MoveFails(written)
    \/ FfmpegOk
    \/ \E partial \in BOOLEAN : FfmpegFails(partial)
    \/ FfmpegNotFound
    \/ FfmpegRaises
    \/ RemoveTemp
    \/ RemoveTempFails

Spec == Init /\ [][Next]_vars

(***************************************************************************)
(* Filename rendering over whole runs: one book of up to MaxChapterNum     *)
(* items is converted, with every step of Next, under every --format       *)
(* choice and a set of templates and identities.                           *)
(***************************************************************************)

\* the most items of the book
MaxChapterNum == 7

JaneDoe == <<"J", "a", "n", "e", " ", "D", "o", "e">>
TemplateExtFirst == TokExt \o <<"-", "%", "d">>

RenderTemplates == {DefaultTemplate, TemplateCh, TemplateExtFirst}

RenderArgs ==
    [author : {Some(JaneDoe)}, title : {Some(Dune)},
     format : FormatChoices, filename_format : RenderTemplates]

InitRender ==
    /\ args \in RenderArgs
    /\ nfiles = 1
    /\ fileIdx = 0
    /\ pc = "start"
    /\ NoLocals
    /\ outfiles = EmptyDir
    /\ tmpfiles = EmptyDir
    /\ log = <<>>
    /\ calls = <<>>
    /\ outcome = <<"pending">>
    /\ faults = 0

NextRender ==
    \/ Start
    \/ MainReturns
    \/ FileNotFound
    \/ ReadError
    \/ \E b \in MetaSet : OpenBook(b)
    \/ \E it \in ItemSet : SkipItemWithin(it, MaxChapterNum)
    \/ \E it \in ItemSet : AcceptItemWithin(it, MaxChapterNum)
    \/ EndOfItems
    \/ FormatFilename
    \/ MakeTemp
    \/ MakeTempFails
    \/ SayOk
    \/ \E partial \in BOOLEAN : SayFails(partial)
    \/ MoveAiff
    \/ \E written \in {"none", "partial", "complete"} : MoveFails(written)
    \/ FfmpegOk
    \/ \E partial \in BOOLEAN : FfmpegFails(partial)
    \/ FfmpegNotFound
    \/ FfmpegRaises
    \/ RemoveTemp
    \/ RemoveTempFails

SpecRender == InitRender /\ [][NextRender]_vars

(***************************************************************************)
(* Properties                                                              *)
(***************************************************************************)

\* the statements of process_book between the acceptance of an item and
\* the end of its chapter
InChapter == pc \in {"format", "mktemp", "say", "convert", "cleanup"}

\* C1: within a document the chapters are handled in strictly increasing
\* index order 1, 2, 3, ...: the k-th accepted item gets index k, whatever
\* was skipped or failed before it, and a skipped item takes no index.
C1_ChapterOrder ==
    /\ \A k \in 1..Len(accepted) : accepted[k] = k
    /\ (InChapter \/ pc = "crashed") => chapter_num = Len(accepted)
    /\ pc = "items" => chapter_num = Len(accepted) + 1
    /\ LET started == SelectSeq(calls, IsMkTemp)
       IN  \A k \in 1..(Len(started) - 1) :
              \/ started[k].file < started[k + 1].file
              \/ /\ started[k].file = started[k + 1].file
                 /\ started[k].chapter < started[k + 1].chapter

\* C1 witness: after a failed chapter and a skipped item, the second
\* accepted item is being handled as chapter 2
C1_Witness ==
    /\ pc = "cleanup"
    /\ itemIdx = 3
    /\ accepted = <<1, 2>>
    /\ chapter_num = 2
    /\ faults = 1
    /\ \E i \in 1..Len(calls) : calls[i].tool = "say" /\ calls[i].result = "error"
                                 /\ calls[i].chapter = 1 /\ calls[i].file = fileIdx

\* C2: when speech synthesis fails for a chapter, no output file is ever
\* made for it and no encoder or move runs for it, its index is used by no
\* other chapter, the loop goes on at once with the next index, and every chapter of
\* the document that is encoded or moved has its complete file; the name an
\* encoder or a move is given is the one rendered with the chapter's own index.
C2_SynthesisFailureIsolated ==
    /\ \A i \in 1..Len(calls) :
          (calls[i].tool = "say" /\ calls[i].result = "error") =>
             /\ \A n \in DOMAIN outfiles :
                   outfiles[n].src # <<calls[i].file, calls[i].chapter>>
             /\ \A j \in 1..Len(calls) :
                   (calls[j].file = calls[i].file
                      /\ calls[j].chapter = calls[i].chapter)
                   => (calls[j].tool \in {"mkstemp", "say"}
                       /\ (calls[j].tool = "say" => j = i))
             /\ IF outcome[calls[i].file] = "open"
                THEN /\ chapter_num > calls[i].chapter
                     /\ i = Len(calls) =>
                           /\ pc \in {"items", "format", "mktemp"}
                           /\ chapter_num = calls[i].chapter + 1
                     /\ \A j \in 1..Len(calls) :
                           (calls[j].file = fileIdx /\ calls[j].result = "ok"
                              /\ calls[j].tool \in {"ffmpeg", "move"})
                           => /\ calls[j].dest \in DOMAIN outfiles
                              /\ outfiles[calls[j].dest] =
                                    Content(<<fileIdx, calls[j].chapter>>,
                                            "complete", ext)
                ELSE outcome[calls[i].file] = "done"
    /\ pc = "cleanup"
       => calls[Len(calls)].dest =
             FinalFilename(args.filename_format, args.format, safe_author,
                           safe_title, calls[Len(calls)].chapter).out

\* C2 witness: chapter 2 of the open document failed in synthesis, chapters
\* 1 and 3 have their complete output files
C2_Witness ==
    /\ pc = "cleanup"
    /\ chapter_num = 3
    /\ \E i \in 1..Len(calls) : calls[i].tool = "say" /\ calls[i].result = "error"
                                 /\ calls[i].file = fileIdx /\ calls[i].chapter = 2
    /\ \E n1, n3 \in DOMAIN outfiles :
          /\ outfiles[n1] = Content(<<fileIdx, 1>>, "complete", ext)
          /\ outfiles[n3] = Content(<<fileIdx, 3>>, "complete", ext)
          /\ n1 # n3

\* C3: after a chapter's processing ends, in success or in failure, no
\* temporary file of it is left in the temp directory.
C3_TempRemoved ==
    pc \in {"items", "main", "done"} => DOMAIN tmpfiles = {}

\* C4: when the encoder fails for a chapter, no destination file of that
\* chapter, complete or half-written, exists once the chapter has ended,
\* and the failure is reported.
C4_NoOutputAfterEncodeFailure ==
    pc \in {"items", "main", "done"} =>
       \A i \in 1..Len(calls) :
          (calls[i].tool = "ffmpeg" /\ calls[i].result # "ok") =>
             /\ \E l \in 1..Len(log) : log[l].file = calls[i].file
                   /\ log[l].msg \in {"Failed to convert", "ffmpeg not found",
                                      "TTS or Conversion failed"}
             /\ \A n \in DOMAIN outfiles :
                   outfiles[n].src # <<calls[i].file, calls[i].chapter>>

\* C5: a failure in rendering the name, in synthesis or in encoding is
\* caught inside the chapter and logged with the chapter's index, and the
\* run goes on: no exception leaves process_book, and every failed command
\* has an error line that names its chapter.
C5_FailuresCaught ==
    /\ pc # "crashed"
    /\ \A i \in 1..Len(calls) :
          calls[i].result # "ok" =>
             \E l \in 1..Len(log) : /\ log[l].file = calls[i].file
                                     /\ log[l].chapter = calls[i].chapter

\* C6: when an input path is missing or unreadable, the run ends with every
\* other input fully processed; the bad input has one error line and no
\* artifact, and every document's numbering starts at 1.
C6_InputsIndependent ==
    /\ \A f \in 1..nfiles :
          outcome[f] \in {"missing", "unreadable"} =>
             /\ \A i \in 1..Len(calls) : calls[i].file # f
             /\ \A n \in DOMAIN outfiles : outfiles[n].src[1] # f
             /\ Len(SelectSeq(log, LAMBDA l : l.file = f)) = 1
    /\ (pc = "items" /\ itemIdx = 0) => chapter_num = 1
    /\ (pc \in {"done", "crashed"}
          /\ \E f \in 1..nfiles : outcome[f] \in {"missing", "unreadable"})
       => \A g \in 1..nfiles : outcome[g] \in {"missing", "unreadable", "done"}

\* C7: an item becomes a chapter exactly when it is a document whose text,
\* without script and style content and with the surrounding whitespace
\* trimmed, has at least 100 characters; any other item changes nothing:
\* no index, no name, no temporary file, no tool run, no output, no error.
C7_Acceptance ==
    [][(pc = "items" /\ itemIdx' = itemIdx + 1) =>
          IF item'.type = 9 /\ item'.content.core >= 100
          THEN /\ pc' = "format"
               /\ accepted' = Append(accepted, chapter_num)
               /\ text'.lead + text'.core + text'.trail = item'.content.core
          ELSE /\ pc' = "items"
               /\ UNCHANGED <<chapter_num, accepted, final_filename, temp_aiff,
                              outfiles, tmpfiles, calls, log>>]_vars

\* C7 witness: after a first chapter of exactly 100 characters was made, a
\* document of 99 characters between whitespace has been skipped
C7_Witness ==
    /\ pc = "items"
    /\ itemIdx = 2
    /\ item.type = 9 /\ item.content.core = 99
    /\ item.content.lead + item.content.core + item.content.trail >= 100
    /\ accepted = <<1>>
    /\ chapter_num = 2
    /\ Len(SelectSeq(calls, IsMkTemp)) = 1

\* C8: when the target format is the synthesizer's own (.aiff), the encoder
\* is never run; after a chapter's move its destination file exists and holds
\* the synthesized audio as it was, its temporary file is gone, and the
\* deletion that follows prints no error.
C8_AiffMoved ==
    /\ \A i \in 1..Len(calls) :
          (calls[i].tool = "ffmpeg" /\ calls[i].file = fileIdx) => ext # ExtAiff
    /\ args.format \in {ExtAiff, <<"a", "i", "f", "f">>} =>
          \A i \in 1..Len(calls) : calls[i].tool # "ffmpeg"
    /\ (calls # <<>> /\ calls[Len(calls)].tool = "move") =>
          /\ calls[Len(calls)].dest \in DOMAIN outfiles
          /\ outfiles[calls[Len(calls)].dest] =
                Content(<<calls[Len(calls)].file, calls[Len(calls)].chapter>>,
                        "complete", ExtAiff)
          /\ \A t \in DOMAIN tmpfiles :
                tmpfiles[t].src # <<calls[Len(calls)].file, calls[Len(calls)].chapter>>
          /\ \A l \in 1..Len(log) :
                ~(log[l].file = calls[Len(calls)].file
                  /\ log[l].chapter = calls[Len(calls)].chapter)

\* the statements at which the locals of process_book hold an open book
InBook == pc \in {"items", "format", "mktemp", "say", "convert", "cleanup", "crashed"}

\* C9 as stated: the author and the title are the command-line override
\* whenever one is given, else the first metadata value when present and
\* non-empty, else the fixed fallback
C9_OverrideWhenGiven ==
    InBook =>
       /\ author = IF args.author # None THEN args.author[1]
                   ELSE IF book.creators # <<>> /\ book.creators[1] # <<>>
                        THEN book.creators[1] ELSE UnknownAuthor
       /\ title = IF args.title # None THEN args.title[1]
                  ELSE IF book.titles # <<>> /\ book.titles[1] # <<>>
                       THEN book.titles[1] ELSE UnknownTitle

\* C9: for the whole of a document, the author and the title are the
\* command-line override when one is given and is not the empty string,
\* else the first metadata value when the field is present and that value
\* is not empty, else "Unknown Author" / "Unknown Title".
C9_Identity ==
    InBook =>
       /\ author = IF args.author # None /\ args.author[1] # <<>> THEN args.author[1]
                   ELSE IF book.creators # <<>> /\ book.creators[1] # <<>>
                        THEN book.creators[1] ELSE UnknownAuthor
       /\ title = IF args.title # None /\ args.title[1] # <<>> THEN args.title[1]
                  ELSE IF book.titles # <<>> /\ book.titles[1] # <<>>
                       THEN book.titles[1] ELSE UnknownTitle

\* C9 witness: the second chapter of a book whose metadata names an author
\* and a title, under an --author override: the override is the author,
\* the metadata gives the title
C9_Witness ==
    /\ pc = "say"
    /\ chapter_num = 2
    /\ args.author = Some(Bob) /\ args.title = None
    /\ book.creators # <<>> /\ book.creators[1] # <<>>
    /\ author = Bob
    /\ title = Dune

\* C10: the rendered name is the template with the tokens substituted and
\* the index applied; where that holds the extension token, every
\* occurrence is replaced by the format name without a dot and nothing is
\* appended, otherwise one dot and the format name are appended; this for
\* every format choice, given with or without its dot.
C10_Extension ==
    /\ pc # "start" => (args.format[1] = "." /\ args.format[2] # "."
                        /\ args.format \in FormatChoices)
    /\ pc = "mktemp" =>
         LET name == IF args.format[1] = "." THEN Tail(args.format) ELSE args.format
             base == PyFormat(Replace(Replace(args.filename_format,
                                              TokAuthor, safe_author),
                                      TokTitle, safe_title), chapter_num).out
         IN  /\ ~Contains(final_filename, TokExt)
             /\ IF Contains(base, TokExt)
                THEN final_filename = Replace(base, TokExt, name)
                ELSE final_filename = base \o <<".">> \o name
             /\ (args.filename_format = TemplateCh /\ chapter_num = 7
                   /\ name = <<"w", "a", "v">>)
                => final_filename = <<"C", "h", "7", ".", "w", "a", "v">>
             /\ (args.filename_format = DefaultTemplate /\ chapter_num = 3
                   /\ safe_author = JaneDoe /\ safe_title = Dune
                   /\ name = <<"m", "p", "3">>)
                => final_filename = JaneDoe \o <<"-">> \o Dune
                      \o <<" ", "-", " ", "C", "h", "a", "p", "t", "e", "r", " ",
                           "0", "3", ".", "m", "p", "3">>
             /\ (args.filename_format = TemplateExtFirst /\ chapter_num = 7
                   /\ name = <<"a", "i", "f", "f">>)
                => final_filename = <<"a", "i", "f", "f", "-", "7">>

\* C10 witness: the template "Ch%d", the format wav and chapter 7, after six
\* chapters written, have been rendered to "Ch7.wav"
C10_Witness ==
    /\ pc = "mktemp"
    /\ args.format = <<".", "w", "a", "v">>
    /\ Len(calls) = 18
    /\ args.filename_format = TemplateCh
    /\ chapter_num = 7
    /\ final_filename = <<"C", "h", "7", ".", "w", "a", "v">>

====
